---- MODULE Spec2Model ----
(***************************************************************************)
(* Model of the pgwire proxy processor: the simple-query and the           *)
(* extended-query handlers of ProxyProcessor (src/src/api/mod.rs and       *)
(* src/examples/proxy.rs) and the result translation they call.            *)
(*                                                                         *)
(* A connection handles one client message at a time.  `call` holds the    *)
(* handler call in progress: its input (what the upstream driver answered) *)
(* and the value the handler returned.  `executed` is the run of           *)
(* consecutive Execute calls made on the current portal, `described` the   *)
(* run of consecutive Describe calls made on one statement.  `client` is   *)
(* the protocol the connection's client speaks: a client sends Query       *)
(* messages, or it sends the messages of the extended protocol.            *)
(*                                                                         *)
(* Spec studies one handler call at a time, over all the answers of the    *)
(* upstream.  ServerSpec studies the server of main: `conns` holds, for    *)
(* every socket, the DefaultClient of its connection (phase, metadata,     *)
(* Portal/Statement Store), the handler its task was given and the query   *)
(* the task is suspended in; `upstream_session` is the queue of requests   *)
(* in flight on the one upstream client; `last` is the message handled by  *)
(* the latest step.  The handlers of ServerSpec are those of Spec.         *)
(*                                                                         *)
(* Sequences are 1-based here; the Rust indices 0 and 1 of                  *)
(* encode_query_response are the positions 1 and 2.                        *)
(***************************************************************************)
EXTENDS Integers, Sequences, FiniteSets, TLC

VARIABLES build, client, call, executed, described, conns, upstream_session, last

vars == <<build, client, call, executed, described, conns, upstream_session, last>>

\* the state of the server: its connections, the requests in flight on the
\* shared upstream client, and the last message a connection's task handled
server_vars == <<conns, upstream_session, last>>

\* the state of the handler call under study
call_vars == <<client, call, executed, described>>

(***************************************************************************)
(* Bounds of the model.                                                    *)
(***************************************************************************)
\* longest upstream simple-query response stream
MaxMsgs == 4
\* most rows in an upstream result set of the extended path
MaxRows == 3
\* largest max_rows of an Execute message
MaxRowLimit == 2
\* longest run of consecutive Execute calls on one portal
MaxExecutes == 2
\* longest run of consecutive Describe calls on one statement
MaxDescribes == 2

(***************************************************************************)
(* Which ProxyProcessor is built.  mod.rs imports DataRowEncoder from      *)
(* api::query (line 14) and also defines a local DataRowEncoder whose      *)
(* new() is todo!() (lines 381-387); the call DataRowEncoder::new() of     *)
(* line 362 names one or the other, depending on which of the two the      *)
(* build keeps.                                                            *)
(***************************************************************************)
Builds == {"api", "api_stub", "example"}

(***************************************************************************)
(* Values of the upstream driver.  An Option is a sequence of length <= 1: *)
(* None is << >>, Some(v) is <<v>>.                                        *)
(***************************************************************************)
None == << >>

Some(v) == <<v>>

\* SimpleQueryRow: the fields of one row of the simple protocol, each an
\* Option<&str>
SimpleRows ==
    { <<Some("1")>>, <<Some("2")>>, <<None, Some("1")>> }

\* the affected-row counts a completion notice carries
Counts == {0, 1, 3}

\* SimpleQueryMessage: Row, CommandComplete, and the variants the `_` arm takes
SimpleQueryMessages ==
    [kind : {"Row"}, row : SimpleRows]
        \cup [kind : {"CommandComplete"}, count : Counts]
        \cup [kind : {"Other"}]

RECURSIVE SeqsUpTo(_, _)
SeqsUpTo(S, n) ==
    IF n = 0 THEN { << >> }
    ELSE LET shorter == SeqsUpTo(S, n - 1)
         IN  shorter \cup { Append(s, x) : s \in { t \in shorter : Len(t) = n - 1 }, x \in S }

Row(row) == [kind |-> "Row", row |-> row]

CommandComplete(count) == [kind |-> "CommandComplete", count |-> count]

\* the query texts a client sends; "..." stands for any other batch
Queries == {"", "SELECT 1; SELECT 2", "UPDATE t SET x=1", "..."}

\* the response streams the upstream produces for a query text when no
\* statement fails: the driver reports an empty query as CommandComplete(0)
Answers(query) ==
    CASE query = "" -> { <<CommandComplete(0)>> }
      [] query = "SELECT 1; SELECT 2" ->
             { <<Row(<<Some("1")>>), CommandComplete(1),
                 Row(<<Some("2")>>), CommandComplete(1)>> }
      [] query = "UPDATE t SET x=1" -> { <<CommandComplete(3)>> }
      [] OTHER -> SeqsUpTo(SimpleQueryMessages, MaxMsgs)

RECURSIVE Prefixes(_)
Prefixes(s) ==
    IF s = << >> THEN { }
    ELSE LET front == SubSeq(s, 1, Len(s) - 1) IN {front} \cup Prefixes(front)

\* what Client::simple_query(query) resolves to: all messages of the response,
\* or the upstream's error; the messages the upstream sent before the error
\* (msgs) are dropped by the driver, which resolves to the error alone
simple_query(query) ==
    [ok : {TRUE}, msgs : Answers(query)]
        \cup [ok : {FALSE}, msgs : UNION { Prefixes(a) : a \in Answers(query) },
              error : {"upstream_error"}]

(***************************************************************************)
(* Wire-level values.                                                      *)
(***************************************************************************)
\* a field of a DataRow: its length word and its bytes; length -1 is NULL
NullMarker == [len |-> -1, data |-> ""]

\* DataRowEncoder::encode_field on an Option<text>
encode_field(field) ==
    IF field = None THEN NullMarker
    ELSE [len |-> Len(field[1]), data |-> field[1]]

\* the reference client's reading of a DataRow field
decode_field(w) ==
    IF w.len = -1 THEN None ELSE Some(w.data)

\* Tag::new_for_execution(name, Some(rows))
new_for_execution(name, rows) == [name |-> name, rows |-> rows]

\* Response::Execution(tag)
Execution(tag) == [kind |-> "Execution", tag |-> tag]

\* Response::Query(QueryResponse::new(schema, data_rows))
Query(schema, data_rows) ==
    [kind |-> "Query", schema |-> schema, data_rows |-> data_rows]

\* PgWireResult: Ok(value), Err(PgWireError::ApiError(e)); a panic unwinds the
\* connection's task and returns nothing
Ok(value) == [kind |-> "Ok", value |-> value]

Err(e) == [kind |-> "Err", error |-> [variant |-> "ApiError", source |-> e]]

Panic == [kind |-> "Panic"]

(***************************************************************************)
(* Simple Query Handler of src/src/api/mod.rs.                             *)
(***************************************************************************)
RECURSIVE Flatten(_)
Flatten(rows) ==
    IF rows = << >> THEN << >> ELSE Head(rows) \o Flatten(Tail(rows))

\* one encoder for all rows, one finish(): a single DataRow holding every field
\* of every buffered row, under an empty schema
encode_simple_query_response(rows) ==
    LET fields == Flatten(rows)
    IN  Query(<< >>, << [i \in 1..Len(fields) |-> encode_field(fields[i])] >>)

\* the CommandComplete arm with the tag's count taken from the buffer's length
OnCommandComplete_CountsBuffer(count, acc) ==
    IF acc.row_buf = << >>
    THEN [acc EXCEPT !.downstream_response =
              Append(@, Execution(new_for_execution("", Len(acc.row_buf))))]
    ELSE [acc EXCEPT !.downstream_response =
              Append(@, encode_simple_query_response(acc.row_buf))]

\* the CommandComplete arm
OnCommandComplete(count, acc) ==
    IF acc.row_buf = << >>
    THEN [acc EXCEPT !.downstream_response =
              Append(@, Execution(new_for_execution("", count)))]
    ELSE [acc EXCEPT !.downstream_response =
              Append(@, encode_simple_query_response(acc.row_buf))]

\* the Row arm
OnRow(row, acc) == [acc EXCEPT !.row_buf = Append(@, row)]

\* the `_` arm answering the message with a result of its own
OnOther_Pushes(acc) ==
    [acc EXCEPT !.downstream_response = Append(@, Execution(new_for_execution("", 0)))]

\* the `_ => {}` arm
OnOther(acc) == acc

RECURSIVE ForEachMessage(_, _)
ForEachMessage(resp_msgs, acc) ==
    IF resp_msgs = << >> THEN acc
    ELSE LET resp == Head(resp_msgs)
             next == CASE resp.kind = "CommandComplete" -> OnCommandComplete(resp.count, acc)
                       [] resp.kind = "Row" -> OnRow(resp.row, acc)
                       [] OTHER -> OnOther(acc)
         IN  ForEachMessage(Tail(resp_msgs), next)

simple_do_query(upstream) ==
    IF ~upstream.ok THEN Err(upstream.error)
    ELSE Ok(ForEachMessage(upstream.msgs,
                           [downstream_response |-> << >>, row_buf |-> << >>]).downstream_response)

(***************************************************************************)
(* Upstream rows of the extended path (tokio_postgres::Row): the columns   *)
(* of the result and one Option per column.                                *)
(***************************************************************************)
Column(name, type) == [name |-> name, type |-> type]

UpstreamRow(columns, values) == [columns |-> columns, values |-> values]

\* the column layouts of the upstream results, and the rows of each layout
Layouts ==
    { <<Column("id", "text"), Column("v", "text")>>,
      <<Column("id", "text")>>,
      <<Column("id", "text"), Column("v", "text"), Column("w", "text")>>,
      <<Column("n", "int4"), Column("v", "text")>> }

ValuesOf(columns) ==
    CASE Len(columns) = 1 -> { <<None>> }
      [] Len(columns) = 3 -> { <<Some("1"), Some("a"), None>> }
      [] columns[1].type = "int4" -> { <<None, Some("a")>> }
      [] OTHER -> { <<Some("1"), Some("a")>>, <<Some("2"), None>>,
                    <<Some("3"), Some("a")>> }

\* the result sets of the upstream: every row of one result has the same columns
ResultSets ==
    UNION { { [i \in 1..Len(vs) |-> UpstreamRow(columns, vs[i])] :
                vs \in SeqsUpTo(ValuesOf(columns), MaxRows) } : columns \in Layouts }

\* the types Row::get::<_, Option<String>> accepts
StringTypes == {"text"}

\* Row::get(index): panics when the index is out of bounds or the column's type
\* cannot be converted to the requested one; otherwise the column's Option
row_get(row, index) ==
    IF index > Len(row.values) \/ row.columns[index].type \notin StringTypes
    THEN Panic
    ELSE [kind |-> "Value", value |-> row.values[index]]

\* the static schema of encode_query_response
schema ==
    << [name |-> "column1", format |-> "Text"],
       [name |-> "column2", format |-> "Text"] >>

\* the inner loop over the schema: the fields encoded for one row, or Panic
\* when a row.get of the loop panics
EncodeBySchema(row) ==
    IF \E index \in 1..Len(schema) : row_get(row, index) = Panic
    THEN Panic
    ELSE [index \in 1..Len(schema) |->
            LET got == row_get(row, index).value
            IN  IF got # None THEN encode_field(Some(got[1]))
                ELSE encode_field(None)]

\* DataRowEncoder::new() of mod.rs line 362: the local stub is todo!()
DataRowEncoder_new ==
    IF build = "api_stub" THEN Panic ELSE [kind |-> "Encoder", fields |-> << >>]

\* encode_query_response of mod.rs: one encoder for all rows and one finish(),
\* so a single DataRow holding the schema's fields of every row
encode_query_response(rows) ==
    IF DataRowEncoder_new = Panic THEN Panic
    ELSE IF \E i \in 1..Len(rows) : EncodeBySchema(rows[i]) = Panic THEN Panic
    ELSE Query(schema, << Flatten([i \in 1..Len(rows) |-> EncodeBySchema(rows[i])]) >>)

\* encode_query_response of the example: one encoder and one finish() per row
example_encode_query_response(rows) ==
    IF \E i \in 1..Len(rows) : EncodeBySchema(rows[i]) = Panic THEN Panic
    ELSE Query(schema, [i \in 1..Len(rows) |-> EncodeBySchema(rows[i])])

\* what Client::query(statement, params) resolves to
query_result(rows, fails) ==
    IF fails THEN [ok |-> FALSE, error |-> "upstream_error"]
    ELSE [ok |-> TRUE, rows |-> rows]

(***************************************************************************)
(* Extended Query Handler: do_query(portal, max_rows) of mod.rs and of the *)
(* example.  Both run the statement with an empty parameter list, encode   *)
(* every row of the answer and never read max_rows.                        *)
(***************************************************************************)
extended_do_query(upstream, max_rows) ==
    IF ~upstream.ok THEN Err(upstream.error)
    ELSE LET query_response == encode_query_response(upstream.rows)
         IN  IF query_response = Panic THEN Panic ELSE Ok(query_response)

example_extended_do_query(upstream, max_rows) ==
    IF ~upstream.ok THEN Err(upstream.error)
    ELSE LET query_response == example_encode_query_response(upstream.rows)
         IN  IF query_response = Panic THEN Panic ELSE Ok(query_response)

\* the portals an Execute names: the statement each binds and the parameter
\* values it was bound with
Portals ==
    { [name |-> "p1",
       statement |-> [id |-> "s1", statement |-> "SELECT id, v FROM t"],
       parameters |-> << >>],
      [name |-> "p2",
       statement |-> [id |-> "s2", statement |-> "SELECT id, v FROM t WHERE id = $1"],
       parameters |-> <<"7">>] }

\* the upstream call of do_query (mod.rs 320-322): the portal's statement text
\* and `params`, which is vec![]
upstream_query(portal) ==
    [statement |-> portal.statement.statement, params |-> << >>]

\* the same call in the example (proxy.rs 138-140)
example_upstream_query(portal) ==
    [statement |-> portal.statement.statement, params |-> << >>]

\* do_describe_portal of both files: todo!()
do_describe_portal(target) == Panic

\* do_describe_statement of both files: todo!()
do_describe_statement(target) == Panic

\* the stored statements a Describe names
StoredStatements ==
    { [statement |-> "SELECT id, v FROM t", parameter_types |-> << >>],
      [statement |-> "UPDATE t SET x=$1", parameter_types |-> <<"int4">>] }

(***************************************************************************)
(* Simple Query Handler of src/examples/proxy.rs: the Row arm buffers      *)
(* nothing (the push is commented out), so row_buf stays empty.            *)
(***************************************************************************)
example_OnRow(row, acc) == acc

\* the rows handed to encode_query_response here are tokio_postgres Rows
example_OnCommandComplete(count, acc) ==
    IF acc.row_buf = << >>
    THEN [acc EXCEPT !.downstream_response =
              Append(@, Execution(new_for_execution("", count)))]
    ELSE [acc EXCEPT !.downstream_response =
              Append(@, example_encode_query_response(acc.row_buf))]

RECURSIVE example_ForEachMessage(_, _)
example_ForEachMessage(resp_msgs, acc) ==
    IF resp_msgs = << >> THEN acc
    ELSE LET resp == Head(resp_msgs)
             next == CASE resp.kind = "CommandComplete" ->
                              example_OnCommandComplete(resp.count, acc)
                       [] resp.kind = "Row" -> example_OnRow(resp.row, acc)
                       [] OTHER -> acc
         IN  example_ForEachMessage(Tail(resp_msgs), next)

example_simple_do_query(upstream) ==
    IF ~upstream.ok THEN Err(upstream.error)
    ELSE Ok(example_ForEachMessage(upstream.msgs,
                [downstream_response |-> << >>, row_buf |-> << >>]).downstream_response)

(***************************************************************************)
(* The server: one task and one DefaultClient per connection, one handler  *)
(* and one upstream client for all of them.                                *)
(***************************************************************************)
\* the sockets main's loop accepts
Conns == {"c1", "c2"}

\* a socket without a task: not accepted yet, closed, or its task is gone
NotConnected == [connected |-> FALSE]

\* PgWireConnectionState; CopyInProgress(bool) is written without its flag
PgWireConnectionState ==
    {"AwaitingSslRequest", "AwaitingStartup", "AuthenticationInProgress",
     "ReadyForQuery", "QueryInProgress", "CopyInProgress", "AwaitingSync"}

METADATA_USER == "user"

METADATA_DATABASE == "database"

\* MemPortalStore::new(): no statement and no portal
MemPortalStore_new == [statements |-> << >>, portals |-> << >>]

\* a map with the entry k -> v added or replaced
put(f, k, v) == [x \in DOMAIN f \cup {k} |-> IF x = k THEN v ELSE f[x]]

\* a map without the entries of the keys ks
remove(f, ks) == [x \in DOMAIN f \ ks |-> f[x]]

\* store_statement: add or replace the entry under the statement's name
store_statement(store, stmt) ==
    [store EXCEPT !.statements = put(@, stmt.id, stmt)]

get_statement(store, name) ==
    IF name \in DOMAIN store.statements THEN Some(store.statements[name]) ELSE None

\* Bind's store operation: add or replace the portal under its name
store_portal(store, portal) ==
    [store EXCEPT !.portals = put(@, portal.name, portal)]

get_portal(store, name) ==
    IF name \in DOMAIN store.portals THEN Some(store.portals[name]) ELSE None

\* the portals of the store that were bound from the statement `name`
BoundFrom(store, name) ==
    { p \in DOMAIN store.portals : store.portals[p].statement.id = name }

\* the mutant of close_statement: the statement goes, its portals stay
close_statement_only(store, name) ==
    [store EXCEPT !.statements = remove(@, {name})]

\* close_statement: removes the statement and every portal bound to it
close_statement(store, name) ==
    [statements |-> remove(store.statements, {name}),
     portals |-> remove(store.portals, BoundFrom(store, name))]

close_portal(store, name) ==
    [store EXCEPT !.portals = remove(@, {name})]

\* the mutant of DefaultClient_new: a client that starts ready for queries
DefaultClient_new_ready ==
    [state |-> "ReadyForQuery", metadata |-> { },
     portal_store |-> MemPortalStore_new]

\* DefaultClient::new: the default state, no metadata, an empty store
DefaultClient_new ==
    [state |-> "AwaitingSslRequest", metadata |-> { },
     portal_store |-> MemPortalStore_new]

\* the one ProxyProcessor of the server: its only field is the upstream client
ProxyProcessor == [upstream_client |-> "upstream"]

\* StatelessMakeHandler::make: a clone of the Arc, that is the same handler
make(handler) == handler

\* the mutant of set_state: the state is one cell all connections share
set_state_shared(cs, c, new_state) ==
    [d \in DOMAIN cs |->
        IF cs[d] = NotConnected THEN cs[d]
        ELSE [cs[d] EXCEPT !.client.state = new_state]]

\* ClientInfo::set_state on the client of connection c: self.state = new_state
set_state(cs, c, new_state) == [cs EXCEPT ![c].client.state = new_state]

\* metadata_mut().insert(key, value) on a client
metadata_insert(cl, key, value) ==
    [cl EXCEPT !.metadata =
        { kv \in @ : kv[1] # key } \cup { <<key, value>> }]

\* the mutant of do_query_client: the handler closes the portal it executed
do_query_client_closes(cl, portal_name) ==
    [cl EXCEPT !.portal_store = close_portal(@, portal_name)]

\* what the extended do_query does to its `_client` argument: nothing, the
\* argument is never used
do_query_client(cl, portal_name) == cl

\* what the simple do_query does to its `_client` argument: nothing
simple_do_query_client(cl) == cl

\* the event of a connection's task: the message it handled
Event(c, op, name, closed) ==
    [conn |-> c, op |-> op, name |-> name, closed |-> closed]

NoEvent == Event("", "none", "", { })

(***************************************************************************)
(* The handlers of a connection: what main constructs and what the         *)
(* connection's task is given.                                             *)
(***************************************************************************)
NoopStartupHandler == [handler |-> "NoopStartupHandler"]

PlaceholderExtendedQueryHandler == [handler |-> "PlaceholderExtendedQueryHandler"]

\* the handlers main constructs before its loop: the proxy processor, the
\* placeholder for the extended protocol, the authenticator
Constructed ==
    [simple |-> make(ProxyProcessor),
     extended |-> make(PlaceholderExtendedQueryHandler),
     startup |-> make(NoopStartupHandler)]

\* the factory main hands to process_socket: authenticator_ref, alone
process_socket_handlers == Constructed.startup

\* PgWireHandlerFactory for NoopStartupHandler: simple_query_handler is todo!()
simple_query_handler(factory) == Panic

\* PgWireHandlerFactory for NoopStartupHandler: a new placeholder
extended_query_handler(factory) == Ok(PlaceholderExtendedQueryHandler)

\* the messages the dispatcher routes to a query handler
SimpleMessages == {"query"}

ExtendedMessages == {"parse", "bind", "describe", "execute"}

\* the dispatch rule: the handler a message goes to is the one the
\* connection's factory returns for the message's protocol
route(factory, message) ==
    IF message \in SimpleMessages THEN simple_query_handler(factory)
    ELSE extended_query_handler(factory)

(***************************************************************************)
(* The connection.                                                         *)
(***************************************************************************)
Idle == [op |-> "none"]

Protocols == {"simple", "extended"}

Init ==
    /\ build \in Builds
    /\ client \in Protocols
    /\ call = Idle
    /\ executed = << >>
    /\ described = << >>
    /\ conns = [c \in Conns |-> NotConnected]
    /\ upstream_session = << >>
    /\ last = NoEvent

\* a Query message: the whole of SimpleQueryHandler::do_query of mod.rs
SimpleQuery ==
    /\ call = Idle
    /\ client = "simple"
    /\ build \in {"api", "api_stub"}
    /\ \E query \in Queries : \E upstream \in simple_query(query) :
          call' = [op |-> "simple_query", query |-> query, upstream |-> upstream,
                   result |-> simple_do_query(upstream)]
    /\ executed' = << >>
    /\ described' = << >>
    /\ UNCHANGED <<build, client>>
    /\ UNCHANGED server_vars

\* a Query message: the whole of SimpleQueryHandler::do_query of the example
ExampleSimpleQuery ==
    /\ call = Idle
    /\ client = "simple"
    /\ build = "example"
    /\ \E query \in Queries : \E upstream \in simple_query(query) :
          call' = [op |-> "simple_query", query |-> query, upstream |-> upstream,
                   result |-> example_simple_do_query(upstream)]
    /\ executed' = << >>
    /\ described' = << >>
    /\ UNCHANGED <<build, client>>
    /\ UNCHANGED server_vars

\* the result set the upstream holds for the portal's statement: chosen when
\* the run of executes starts, the same for every execute of the run
PortalRows ==
    IF executed = << >> THEN ResultSets ELSE { executed[1].rows }

\* the portal the run of executes names: chosen when the run starts
RunPortals ==
    IF executed = << >> THEN Portals ELSE { executed[1].portal }

\* an Execute message on the current portal: the whole of
\* ExtendedQueryHandler::do_query of mod.rs
ExtendedQuery ==
    /\ call = Idle
    /\ client = "extended"
    /\ build \in {"api", "api_stub"}
    /\ Len(executed) < MaxExecutes
    /\ \E max_rows \in 0..MaxRowLimit, rows \in PortalRows, fails \in BOOLEAN,
          portal \in RunPortals :
          LET upstream == query_result(rows, fails)
              result == extended_do_query(upstream, max_rows)
          IN  /\ call' = [op |-> "execute", portal |-> portal, max_rows |-> max_rows,
                          sent |-> upstream_query(portal),
                          upstream |-> upstream, result |-> result]
              /\ executed' = Append(executed, [portal |-> portal, max_rows |-> max_rows,
                                               rows |-> rows, result |-> result])
    /\ described' = << >>
    /\ UNCHANGED <<build, client>>
    /\ UNCHANGED server_vars

\* an Execute message on the current portal: the whole of
\* ExtendedQueryHandler::do_query of the example
ExampleExtendedQuery ==
    /\ call = Idle
    /\ client = "extended"
    /\ build = "example"
    /\ Len(executed) < MaxExecutes
    /\ \E max_rows \in 0..MaxRowLimit, rows \in PortalRows, fails \in BOOLEAN,
          portal \in RunPortals :
          LET upstream == query_result(rows, fails)
              result == example_extended_do_query(upstream, max_rows)
          IN  /\ call' = [op |-> "execute", portal |-> portal, max_rows |-> max_rows,
                          sent |-> example_upstream_query(portal),
                          upstream |-> upstream, result |-> result]
              /\ executed' = Append(executed, [portal |-> portal, max_rows |-> max_rows,
                                               rows |-> rows, result |-> result])
    /\ described' = << >>
    /\ UNCHANGED <<build, client>>
    /\ UNCHANGED server_vars

\* the statement the run of describes names: chosen when the run starts
DescribeTargets ==
    IF described = << >> THEN StoredStatements ELSE { described[1].target }

\* a Describe message naming a stored statement: the whole of
\* do_describe_statement
DescribeStatement ==
    /\ call = Idle
    /\ client = "extended"
    /\ Len(described) < MaxDescribes
    /\ \E target \in DescribeTargets :
          /\ LET result == do_describe_statement(target)
             IN  /\ call' = [op |-> "describe_statement", target |-> target,
                             result |-> result]
                 /\ described' = Append(described, [target |-> target, result |-> result])
    /\ executed' = << >>
    /\ UNCHANGED <<build, client>>
    /\ UNCHANGED server_vars

\* a Describe message naming a portal: the whole of do_describe_portal
DescribePortal ==
    /\ call = Idle
    /\ client = "extended"
    /\ \E target \in Portals :
          call' = [op |-> "describe_portal", target |-> target,
                   result |-> do_describe_portal(target)]
    /\ executed' = << >>
    /\ described' = << >>
    /\ UNCHANGED <<build, client>>
    /\ UNCHANGED server_vars

\* a message of a connection of main's server in the Ready phase, up to the
\* choice of its handler
RouteMessage ==
    /\ call = Idle
    /\ \E message \in IF client = "simple" THEN SimpleMessages ELSE ExtendedMessages :
          call' = [op |-> "route", message |-> message,
                   result |-> route(process_socket_handlers, message)]
    /\ executed' = << >>
    /\ described' = << >>
    /\ UNCHANGED <<build, client>>
    /\ UNCHANGED server_vars

\* the dispatcher has written the handler's result to the client
Respond ==
    /\ call # Idle
    /\ call.result.kind # "Panic"
    /\ call' = Idle
    /\ UNCHANGED <<build, client, executed, described>>
    /\ UNCHANGED server_vars

\* the handler panicked and the connection's task is gone; main's loop accepts
\* the next connection
Accept ==
    /\ call # Idle
    /\ call.result.kind = "Panic"
    /\ client' \in Protocols
    /\ call' = Idle
    /\ executed' = << >>
    /\ described' = << >>
    /\ UNCHANGED build
    /\ UNCHANGED server_vars

Next ==
    \/ SimpleQuery
    \/ ExampleSimpleQuery
    \/ ExtendedQuery
    \/ ExampleExtendedQuery
    \/ DescribeStatement
    \/ DescribePortal
    \/ RouteMessage
    \/ Respond
    \/ Accept

Spec == Init /\ [][Next]_vars

(***************************************************************************)
(* The server's steps.  The dispatcher that reads the messages and sets    *)
(* the phase is modelled after sections 4.4 and 4.5 of the specification;  *)
(* an upstream call is a suspension point, so a query takes two steps: the *)
(* request is put on the upstream client's session, and the session's      *)
(* reply to its oldest request lets the handler finish.                    *)
(***************************************************************************)
Alive(c) == conns[c].connected

\* the task of c waits for its client's next message in phase `state`
AwaitsMessage(c, state) ==
    /\ Alive(c)
    /\ conns[c].pending = Idle
    /\ conns[c].client.state = state

StoreOf(c) == conns[c].client.portal_store

\* the statements a client parses, the parameter values it binds, the names
\* it logs in with
ParsedStatements == { p.statement : p \in Portals }

StatementNames == { st.id : st \in ParsedStatements }

PortalNames == { p.name : p \in Portals }

BoundParameters == { <<"7">> }

Users == { "alice" }

\* the upstream results of the server's queries
ServerRows == { rs \in ResultSets : Len(rs) <= 1 }

ServerAnswers ==
    UNION { simple_query(q) : q \in {"", "UPDATE t SET x=1", "SELECT 1; SELECT 2"} }

\* main's loop: accept, make the handlers, spawn the task of the connection
AcceptConnection(c) ==
    /\ ~Alive(c)
    /\ conns' = [conns EXCEPT ![c] =
                    [connected |-> TRUE, client |-> DefaultClient_new,
                     handler |-> make(ProxyProcessor), pending |-> Idle]]
    /\ last' = Event(c, "accept", "", { })
    /\ UNCHANGED <<build, call_vars, upstream_session>>

SslRequest(c) ==
    /\ AwaitsMessage(c, "AwaitingSslRequest")
    /\ conns' = set_state(conns, c, "AwaitingStartup")
    /\ last' = Event(c, "ssl_request", "", { })
    /\ UNCHANGED <<build, call_vars, upstream_session>>

Startup(c) ==
    /\ AwaitsMessage(c, "AwaitingStartup")
    /\ conns' = set_state(conns, c, "AuthenticationInProgress")
    /\ last' = Event(c, "startup", "", { })
    /\ UNCHANGED <<build, call_vars, upstream_session>>

\* authentication fills the metadata and makes the connection ready
Authenticate(c) ==
    /\ AwaitsMessage(c, "AuthenticationInProgress")
    /\ \E user \in Users :
          LET cl == metadata_insert(
                        metadata_insert(conns[c].client, METADATA_USER, user),
                        METADATA_DATABASE, "db")
          IN  conns' = set_state([conns EXCEPT ![c].client = cl], c, "ReadyForQuery")
    /\ last' = Event(c, "authenticate", "", { })
    /\ UNCHANGED <<build, call_vars, upstream_session>>

Parse(c) ==
    /\ AwaitsMessage(c, "ReadyForQuery")
    /\ \E stmt \in ParsedStatements :
          /\ conns' = [conns EXCEPT ![c].client.portal_store = store_statement(@, stmt)]
          /\ last' = Event(c, "parse", stmt.id, { })
    /\ UNCHANGED <<build, call_vars, upstream_session>>

\* Bind of a stored statement: the portal holds the statement and the values
Bind(c) ==
    /\ AwaitsMessage(c, "ReadyForQuery")
    /\ \E name \in PortalNames, s \in DOMAIN StoreOf(c).statements,
          parameters \in BoundParameters :
          LET portal == [name |-> name, statement |-> StoreOf(c).statements[s],
                         parameters |-> parameters]
          IN  /\ conns' = [conns EXCEPT ![c].client.portal_store = store_portal(@, portal)]
              /\ last' = Event(c, "bind", name, { })
    /\ UNCHANGED <<build, call_vars, upstream_session>>

CloseStatement(c) ==
    /\ AwaitsMessage(c, "ReadyForQuery")
    /\ \E name \in StatementNames :
          /\ conns' = [conns EXCEPT ![c].client.portal_store = close_statement(@, name)]
          /\ last' = Event(c, "close_statement", name, BoundFrom(StoreOf(c), name))
    /\ UNCHANGED <<build, call_vars, upstream_session>>

ClosePortal(c) ==
    /\ AwaitsMessage(c, "ReadyForQuery")
    /\ \E name \in PortalNames :
          /\ conns' = [conns EXCEPT ![c].client.portal_store = close_portal(@, name)]
          /\ last' = Event(c, "close_portal", name, { })
    /\ UNCHANGED <<build, call_vars, upstream_session>>

\* the request of c's handler joins the requests in flight on the one
\* upstream client; `hangs` marks a call the upstream never completes
Request(c, hangs) == [conn |-> c, hangs |-> hangs]

\* Execute of a stored portal, up to the handler's upstream call
ExecuteStart(c) ==
    /\ AwaitsMessage(c, "ReadyForQuery")
    /\ \E name \in DOMAIN StoreOf(c).portals, hangs \in BOOLEAN :
          /\ conns' = set_state(
                 [conns EXCEPT ![c].pending = [op |-> "execute", portal |-> name]],
                 c, "QueryInProgress")
          /\ upstream_session' = Append(upstream_session, Request(c, hangs))
          /\ last' = Event(c, "execute", name, { })
    /\ UNCHANGED <<build, call_vars>>

\* Query, up to the handler's upstream call
QueryStart(c) ==
    /\ AwaitsMessage(c, "ReadyForQuery")
    /\ \E hangs \in BOOLEAN :
          upstream_session' = Append(upstream_session, Request(c, hangs))
    /\ conns' = set_state([conns EXCEPT ![c].pending = [op |-> "simple_query"]],
                          c, "QueryInProgress")
    /\ last' = Event(c, "query", "", { })
    /\ UNCHANGED <<build, call_vars>>

\* the upstream has answered the oldest request in flight, and it is c's
Answered(c) ==
    /\ upstream_session # << >>
    /\ upstream_session[1].conn = c
    /\ ~upstream_session[1].hangs

\* the handler of c has returned `result` and left the client as cl: a panic
\* ends the task, a value makes the connection ready, an error makes it wait
\* for Sync
Returned(cs, c, cl, result) ==
    IF result.kind = "Panic" THEN [cs EXCEPT ![c] = NotConnected]
    ELSE set_state([cs EXCEPT ![c].client = cl, ![c].pending = Idle], c,
                   IF result.kind = "Ok" THEN "ReadyForQuery" ELSE "AwaitingSync")

\* the rest of the extended do_query, from the upstream's reply on
ExecuteFinish(c) ==
    /\ Alive(c)
    /\ conns[c].pending.op = "execute"
    /\ Answered(c)
    /\ \E rows \in ServerRows, fails \in BOOLEAN :
          LET upstream == query_result(rows, fails)
              result == IF build = "example"
                        THEN example_extended_do_query(upstream, 0)
                        ELSE extended_do_query(upstream, 0)
              cl == do_query_client(conns[c].client, conns[c].pending.portal)
          IN  /\ conns' = Returned(conns, c, cl, result)
              /\ last' = Event(c, "executed", conns[c].pending.portal, { })
    /\ upstream_session' = Tail(upstream_session)
    /\ UNCHANGED <<build, call_vars>>

\* the rest of the simple do_query, from the upstream's reply on
QueryFinish(c) ==
    /\ Alive(c)
    /\ conns[c].pending.op = "simple_query"
    /\ Answered(c)
    /\ \E upstream \in ServerAnswers :
          LET result == IF build = "example" THEN example_simple_do_query(upstream)
                        ELSE simple_do_query(upstream)
              cl == simple_do_query_client(conns[c].client)
          IN  conns' = Returned(conns, c, cl, result)
    /\ last' = Event(c, "queried", "", { })
    /\ upstream_session' = Tail(upstream_session)
    /\ UNCHANGED <<build, call_vars>>

\* Sync after an error
Sync(c) ==
    /\ AwaitsMessage(c, "AwaitingSync")
    /\ conns' = set_state(conns, c, "ReadyForQuery")
    /\ last' = Event(c, "sync", "", { })
    /\ UNCHANGED <<build, call_vars, upstream_session>>

\* the client closes the connection: the task ends and its client is dropped
Terminate(c) ==
    /\ AwaitsMessage(c, "ReadyForQuery")
    /\ conns' = [conns EXCEPT ![c] = NotConnected]
    /\ last' = Event(c, "terminate", "", { })
    /\ UNCHANGED <<build, call_vars, upstream_session>>

ServerInit ==
    /\ Init
    /\ client = "extended"

ServerNext ==
    \E c \in Conns :
        \/ AcceptConnection(c)
        \/ SslRequest(c)
        \/ Startup(c)
        \/ Authenticate(c)
        \/ Parse(c)
        \/ Bind(c)
        \/ CloseStatement(c)
        \/ ClosePortal(c)
        \/ ExecuteStart(c)
        \/ QueryStart(c)
        \/ ExecuteFinish(c)
        \/ QueryFinish(c)
        \/ Sync(c)
        \/ Terminate(c)

ServerSpec == ServerInit /\ [][ServerNext]_vars

\* the tasks are scheduled fairly and the upstream answers every request it
\* can complete
FairServerSpec ==
    /\ ServerSpec
    /\ \A c \in Conns : WF_vars(ExecuteFinish(c)) /\ WF_vars(QueryFinish(c))

(***************************************************************************)
(* Vocabulary of the properties.                                           *)
(***************************************************************************)
\* the positions of the completion notices in a response stream
CompletionIndexes(msgs) ==
    { i \in 1..Len(msgs) : msgs[i].kind = "CommandComplete" }

\* the position of the n-th completion notice (0 for n = 0)
NthCompletion(msgs, n) ==
    IF n = 0 THEN 0
    ELSE CHOOSE k \in CompletionIndexes(msgs) :
             Cardinality({ j \in CompletionIndexes(msgs) : j <= k }) = n

IsRowMessage(m) == m.kind = "Row"

\* the rows of statement n: those that arrived after completion notice n-1 and
\* before completion notice n, in arrival order
StatementRows(msgs, n) ==
    LET between == SelectSeq(SubSeq(msgs, NthCompletion(msgs, n - 1) + 1,
                                    NthCompletion(msgs, n) - 1), IsRowMessage)
    IN  [j \in 1..Len(between) |-> between[j].row]

\* the wire form of one row: every field encoded, NULL as the NULL marker
EncodedRow(values) == [i \in 1..Len(values) |-> encode_field(values[i])]

EncodedRows(rows) == [j \in 1..Len(rows) |-> EncodedRow(rows[j])]

IsSuffix(s, t) ==
    Len(s) <= Len(t) /\ SubSeq(t, Len(t) - Len(s) + 1, Len(t)) = s

\* a simple-query call whose upstream answered without an error
SimpleSucceeded == call.op = "simple_query" /\ call.upstream.ok

\* a simple-query call whose upstream reported an error
SimpleFailed == call.op = "simple_query" /\ ~call.upstream.ok

\* the results a handler's return value delivers to the client
Delivered(result) == IF result.kind = "Ok" THEN result.value ELSE << >>

C2_CompletedResultsPrecedeError ==
    SimpleFailed =>
        /\ Len(Delivered(call.result)) = Cardinality(CompletionIndexes(call.upstream.msgs))
        /\ call.result.kind = "Err"

(***************************************************************************)
(* C3: the Row Set of statement i holds exactly the rows that arrived      *)
(* between completion notices i-1 and i, in arrival order, and no row of   *)
(* an earlier statement (compared field by field, whatever the split into  *)
(* DataRows); "SELECT 1; SELECT 2" yields two Row Sets of one row each,    *)
(* with the values 1 and 2.                                                *)
(***************************************************************************)
C3_RowsGroupedPerStatement ==
    SimpleSucceeded =>
        LET msgs == call.upstream.msgs
            value == Delivered(call.result)
        IN  /\ \A i \in 1..Len(value) :
                  value[i].kind = "Query" =>
                      Flatten(value[i].data_rows) =
                          Flatten(EncodedRows(StatementRows(msgs, i)))
            /\ call.query = "SELECT 1; SELECT 2" =>
                  /\ Len(value) = 2
                  /\ \A i \in 1..2 : value[i].kind = "Query"
                  /\ value[1].data_rows = << <<encode_field(Some("1"))>> >>
                  /\ value[2].data_rows = << <<encode_field(Some("2"))>> >>

(***************************************************************************)
(* C4: each statement gets exactly one shape, chosen by its own rows: an   *)
(* Execution Tag iff no row arrived for it, a Row Set iff one did.         *)
(***************************************************************************)
C4_ShapeByOwnRows ==
    SimpleSucceeded =>
        LET msgs == call.upstream.msgs
            value == Delivered(call.result)
        IN  \A i \in 1..Len(value) :
               /\ value[i].kind = "Execution" <=> StatementRows(msgs, i) = << >>
               /\ value[i].kind = "Query" <=> StatementRows(msgs, i) # << >>

(***************************************************************************)
(* C5, as the spec states it: "UPDATE t SET x=1" with 3 rows affected      *)
(* yields the single Execution Tag ("UPDATE", 3).                          *)
(***************************************************************************)
C5_TagCarriesCommandName ==
    (SimpleSucceeded /\ call.query = "UPDATE t SET x=1") =>
        Delivered(call.result) = << Execution(new_for_execution("UPDATE", 3)) >>

\* a batch of one statement that returned no row
OneRowlessStatement(msgs) ==
    /\ Cardinality(CompletionIndexes(msgs)) = 1
    /\ \A i \in 1..Len(msgs) : msgs[i].kind # "Row"

(***************************************************************************)
(* C5, amended: a simple query of one row-less statement yields exactly    *)
(* one Execution Tag, which carries the statement's affected-row count and *)
(* an empty command name: "UPDATE t SET x=1" with 3 rows affected yields   *)
(* the single Execution Tag ("", 3).                                       *)
(***************************************************************************)
C5_TagCarriesCountAndEmptyName ==
    /\ (SimpleSucceeded /\ OneRowlessStatement(call.upstream.msgs)) =>
          LET msgs == call.upstream.msgs
          IN  /\ call.result.kind = "Ok"
              /\ call.result.value =
                    << Execution(new_for_execution("", msgs[NthCompletion(msgs, 1)].count)) >>
    /\ (SimpleSucceeded /\ call.query = "UPDATE t SET x=1") =>
          /\ call.result.kind = "Ok"
          /\ call.result.value = << Execution(new_for_execution("", 3)) >>

C5_Witness ==
    /\ SimpleSucceeded
    /\ call.query = "UPDATE t SET x=1"
    /\ call.upstream.msgs = <<CommandComplete(3)>>
    /\ call.result = Ok(<< Execution(new_for_execution("", 3)) >>)

(***************************************************************************)
(* C6: the empty query text yields a single empty-query response: the call *)
(* succeeds with exactly one Response, of the empty-query kind.            *)
(***************************************************************************)
C6_EmptyQueryResponse ==
    (SimpleSucceeded /\ call.query = "") =>
        /\ call.result.kind = "Ok"
        /\ Len(call.result.value) = 1
        /\ call.result.value[1].kind = "EmptyQuery"
(***************************************************************************)
(* Vocabulary of the extended path.                                        *)
(***************************************************************************)
\* the upstream rows have the columns the static schema assumes
SchemaFits(rows) ==
    \A j \in 1..Len(rows) :
        /\ Len(rows[j].columns) = Len(schema)
        /\ \A c \in 1..Len(schema) : rows[j].columns[c].type \in StringTypes

ValuesOfRows(rows) == [j \in 1..Len(rows) |-> rows[j].values]

\* the fields a Row Set carries, in order
ReturnedFields(result) == Flatten(result.value.data_rows)

RECURSIVE RowsAlreadyReturned(_)
\* the rows the executes before the j-th of the run were asked for
RowsAlreadyReturned(j) ==
    IF j = 1 THEN 0 ELSE RowsAlreadyReturned(j - 1) + executed[j - 1].max_rows

Min(a, b) == IF a <= b THEN a ELSE b

\* the rows the j-th execute of the run is to return: the next max_rows rows
\* of the portal's result set
RowsDue(j) ==
    SubSeq(executed[1].rows, RowsAlreadyReturned(j) + 1,
           Min(RowsAlreadyReturned(j) + executed[j].max_rows, Len(executed[1].rows)))

(***************************************************************************)
(* C7: successive row-limited executes of one portal return consecutive    *)
(* slices of its result set, nothing duplicated and nothing lost: on a     *)
(* 3-row result, max_rows = 2 twice returns rows [1,2] and then [3].       *)
(* Stated for the runs whose calls all returned a Row Set and whose rows   *)
(* have the columns the schema assumes.                                    *)
(***************************************************************************)
C7_PortalResumption ==
    ( /\ executed # << >>
      /\ SchemaFits(executed[1].rows)
      /\ \A j \in 1..Len(executed) :
            executed[j].result.kind = "Ok" /\ executed[j].max_rows > 0 ) =>
        \A j \in 1..Len(executed) :
            ReturnedFields(executed[j].result) =
                Flatten(EncodedRows(ValuesOfRows(RowsDue(j))))

(***************************************************************************)
(* C8: one execute returns at most max_rows rows when max_rows > 0, and    *)
(* all rows of the result when max_rows = 0.                               *)
(***************************************************************************)
C8_AtMostMaxRows ==
    ( /\ call.op = "execute"
      /\ call.result.kind = "Ok"
      /\ SchemaFits(call.upstream.rows) ) =>
        /\ call.max_rows > 0 =>
              Len(ReturnedFields(call.result)) <= call.max_rows * Len(schema)
        /\ call.max_rows = 0 =>
              ReturnedFields(call.result) =
                  Flatten(EncodedRows(ValuesOfRows(call.upstream.rows)))

\* some field of the rows is SQL NULL
HasNull(rows) ==
    \E j \in 1..Len(rows) : \E c \in 1..Len(rows[j].values) : rows[j].values[c] = None

DecodedFields(fields) == [i \in 1..Len(fields) |-> decode_field(fields[i])]

(***************************************************************************)
(* C9: a NULL field of an upstream row is encoded as the NULL marker       *)
(* whatever its column's type, and never aborts the encoding: decoding the *)
(* encoded rows yields NULL at its position and the other fields           *)
(* unchanged.  Stated for the builds whose encoder can be constructed.     *)
(***************************************************************************)
C9_NullRoundTrip ==
    /\ ( /\ call.op = "execute"
         /\ call.upstream.ok
         /\ build # "api_stub"
         /\ HasNull(call.upstream.rows) ) =>
           /\ call.result.kind = "Ok"
           /\ DecodedFields(ReturnedFields(call.result)) =
                  Flatten(ValuesOfRows(call.upstream.rows))
    /\ SimpleSucceeded =>
           \A i \in 1..Len(Delivered(call.result)) :
               Delivered(call.result)[i].kind = "Query" =>
                   IsSuffix(Flatten(StatementRows(call.upstream.msgs, i)),
                            DecodedFields(Flatten(Delivered(call.result)[i].data_rows)))

(***************************************************************************)
(* C10: describe_statement called twice on the same stored statement       *)
(* returns a result both times, and the two results are identical.         *)
(***************************************************************************)
C10_DescribeIdempotent ==
    described # << >> =>
        /\ \A i \in 1..Len(described) : described[i].result.kind = "Ok"
        /\ \A i, j \in 1..Len(described) :
              described[i].result.value = described[j].result.value
\* the upstream rows hold a column of a type the translation does not support,
\* in a result that otherwise has the columns the schema assumes
HasUnsupportedType(rows) ==
    /\ rows # << >>
    /\ \A j \in 1..Len(rows) : Len(rows[j].columns) = Len(schema)
    /\ \E j \in 1..Len(rows) : \E c \in 1..Len(schema) :
          rows[j].columns[c].type \notin StringTypes

(***************************************************************************)
(* C11: an encoding failure while translating a row (unsupported type) is  *)
(* reported as an error value: the handler returns an Err, it does not     *)
(* abort and it does not deliver the value as NULL.  Stated for the builds *)
(* whose encoder can be constructed.                                       *)
(***************************************************************************)
C11_EncodingFailureIsErrorValue ==
    ( /\ call.op = "execute"
      /\ call.upstream.ok
      /\ build # "api_stub"
      /\ HasUnsupportedType(call.upstream.rows) ) =>
        call.result.kind = "Err"

(***************************************************************************)
(* C12: every call of a handler operation returns control with a result    *)
(* value or an error value, never aborting; an upstream failure of the     *)
(* simple or the extended query is returned as an error value carrying the *)
(* upstream error.                                                         *)
(***************************************************************************)
C12_EveryCallReturns ==
    call # Idle =>
        /\ call.result.kind \in {"Ok", "Err"}
        /\ (call.op \in {"simple_query", "execute"} /\ ~call.upstream.ok) =>
              call.result = Err(call.upstream.error)

\* the Row Sets a call delivered, each with the number of upstream rows it was
\* built from
RowSetsOfCall ==
    IF call = Idle \/ call.result.kind # "Ok" THEN { }
    ELSE IF call.op = "execute"
    THEN { [row_set |-> call.result.value, built_from |-> Len(call.upstream.rows)] }
    ELSE IF call.op = "simple_query"
    THEN { [row_set |-> call.result.value[i],
            built_from |-> Len(StatementRows(call.upstream.msgs, i))] :
              i \in { k \in 1..Len(call.result.value) : call.result.value[k].kind = "Query" } }
    ELSE { }

(***************************************************************************)
(* C14: in every Row Set, of the simple or the extended path, each emitted *)
(* row has as many fields as the Column Descriptor list has entries, and   *)
(* the number of emitted rows is the number of upstream rows buffered for  *)
(* the statement.                                                          *)
(***************************************************************************)
C14_RowArity ==
    \A r \in RowSetsOfCall :
        /\ \A j \in 1..Len(r.row_set.data_rows) :
              Len(r.row_set.data_rows[j]) = Len(r.row_set.schema)
        /\ Len(r.row_set.data_rows) = r.built_from

(***************************************************************************)
(* C15: the Column Descriptor list of a Row Set is derived from the        *)
(* upstream rows' column metadata: k columns named n1..nk give exactly k   *)
(* descriptors named n1..nk, in order.                                     *)
(***************************************************************************)
C15_SchemaFromUpstreamColumns ==
    ( /\ call.op = "execute"
      /\ call.result.kind = "Ok"
      /\ call.upstream.rows # << >> ) =>
        LET columns == call.upstream.rows[1].columns
            descriptors == call.result.value.schema
        IN  /\ Len(descriptors) = Len(columns)
            /\ \A c \in 1..Len(columns) : descriptors[c].name = columns[c].name

(***************************************************************************)
(* C16: execute runs the portal's statement upstream with the portal's     *)
(* bound parameter values: the upstream call receives exactly p1..pm, in   *)
(* order.                                                                  *)
(***************************************************************************)
C16_BoundParametersSent ==
    call.op = "execute" =>
        /\ call.sent.statement = call.portal.statement.statement
        /\ call.sent.params = call.portal.parameters
\* the task of c is suspended in an upstream call
Suspended(c) == Alive(c) /\ conns[c].pending # Idle

\* the upstream never completes the call c is suspended in
CallHangs(c) ==
    \E i \in 1..Len(upstream_session) :
        upstream_session[i].conn = c /\ upstream_session[i].hangs

(***************************************************************************)
(* C19: a suspended upstream call blocks only its own connection: every    *)
(* connection whose own upstream call can complete is eventually answered, *)
(* whatever call another connection is suspended in.                       *)
(***************************************************************************)
C19_OthersEventuallyAnswered ==
    \A c \in Conns : (Suspended(c) /\ ~CallHangs(c)) ~> ~Suspended(c)
(***************************************************************************)
(* C13: after close_statement("s1") on a connection's store every portal   *)
(* that was bound from "s1" is unresolvable via get_portal, while the      *)
(* portals bound from other statements resolve as before.                  *)
(***************************************************************************)
C13_CloseStatementUnbindsPortals ==
    [][\A c \in Conns :
          (Alive(c) /\ last'.conn = c /\ last'.op = "close_statement") =>
              \A p \in DOMAIN StoreOf(c).portals :
                  IF p \in BoundFrom(StoreOf(c), last'.name)
                  THEN get_portal(StoreOf(c)', p) = None
                  ELSE get_portal(StoreOf(c)', p) = Some(StoreOf(c).portals[p])]_vars

\* s1 was closed while a portal was bound from it and another portal was
\* bound from s2: the other portal is all the store resolves
C13_Witness ==
    /\ last.op = "close_statement"
    /\ last.name = "s1"
    /\ last.closed # { }
    /\ Alive(last.conn)
    /\ \E p \in DOMAIN StoreOf(last.conn).portals :
          /\ p \notin last.closed
          /\ StoreOf(last.conn).portals[p].statement.id = "s2"

\* the step starts or finishes an Execute of connection c
ExecuteStepOf(c) == last'.conn = c /\ last'.op \in {"execute", "executed"}

\* an entry of c's store is gone after the step
EntryRemoved(c) ==
    \/ ~(DOMAIN StoreOf(c).statements \subseteq DOMAIN StoreOf(c)'.statements)
    \/ ~(DOMAIN StoreOf(c).portals \subseteq DOMAIN StoreOf(c)'.portals)

C18_ConnectionsIsolated ==
    [][/\ \A d \in Conns : d # last'.conn => conns'[d] = conns[d]
       /\ last'.op = "accept" =>
             /\ conns'[last'.conn].client.metadata = { }
             /\ conns'[last'.conn].client.portal_store = MemPortalStore_new
       /\ \A c, d \in Conns :
             (Alive(c)' /\ Alive(d)') => conns'[c].handler = conns'[d].handler]_vars

\* one connection has just become ready while the other, in another phase,
\* holds a statement and a portal
C18_Witness ==
    \E c, d \in Conns :
        /\ c # d
        /\ Alive(c) /\ Alive(d)
        /\ last = Event(c, "sync", "", { })
        /\ conns[d].client.state = "QueryInProgress"
        /\ StoreOf(c).portals # << >>
        /\ StoreOf(d).portals # << >>
        /\ StoreOf(c) # StoreOf(d)

\* the phase changes the specification names, with the message of each
SpecifiedTransitions ==
    { <<"AwaitingStartup", "startup", "AuthenticationInProgress">>,
      <<"AuthenticationInProgress", "authenticate", "ReadyForQuery">>,
      <<"ReadyForQuery", "execute", "QueryInProgress">>,
      <<"ReadyForQuery", "query", "QueryInProgress">>,
      <<"QueryInProgress", "executed", "ReadyForQuery">>,
      <<"QueryInProgress", "queried", "ReadyForQuery">>,
      <<"QueryInProgress", "executed", "AwaitingSync">>,
      <<"QueryInProgress", "queried", "AwaitingSync">>,
      <<"AwaitingSync", "sync", "ReadyForQuery">> }

\* the change out of the phase a client is constructed in
SslTransition == { <<"AwaitingSslRequest", "ssl_request", "AwaitingStartup">> }

PhaseOf(c) == conns[c].client.state

\* every phase change of the step is one of `transitions`, made by the
\* connection's own message
PhaseChangesAlong(transitions) ==
    \A c \in Conns :
        (Alive(c) /\ Alive(c)' /\ PhaseOf(c)' # PhaseOf(c)) =>
            /\ last'.conn = c
            /\ <<PhaseOf(c), last'.op, PhaseOf(c)'>> \in transitions

\* no connection is in QueryInProgress once its handler has returned
HandlerReturnLeavesQuery ==
    \A c \in Conns :
        (Alive(c)' /\ last'.conn = c /\ last'.op \in {"executed", "queried"}) =>
            PhaseOf(c)' # "QueryInProgress"

\* the phases of the transitions of a set
PhasesOf(transitions) ==
    { t[1] : t \in transitions } \cup { t[3] : t \in transitions }

SpecifiedPhases == PhasesOf(SpecifiedTransitions)

\* the specified transitions and the one out of the initial phase
TransitionsFromSslRequest == SpecifiedTransitions \cup SslTransition

PhasesFromSslRequest == PhasesOf(TransitionsFromSslRequest)

C21_RoutedToConstructedHandlers ==
    call.op = "route" =>
        IF call.message \in SimpleMessages
        THEN call.result = Ok(Constructed.simple)
        ELSE call.result = Ok(Constructed.extended)
====
